---- MODULE Spec2Model ----
(***************************************************************************)
(* Model of the landing page component Index (src/src/pages/Index.tsx).    *)
(*                                                                         *)
(* The component declares two literal arrays (learningPaths, features),    *)
(* one pure helper (getDifficultyColor) and returns a tree built by        *)
(* mapping the arrays to cards.  A render is modelled as one synchronous   *)
(* pass whose position (pc and the map indices) is part of the state; the  *)
(* tree built so far is the variable out.                                  *)
(***************************************************************************)
EXTENDS Integers, Sequences, FiniteSets, TLC

\* Number of times the framework calls Index in a behaviour.
MaxRenders == 2

\* The value of a prop that the JSX does not pass.
Undefined == "undefined"

(***************************************************************************)
(* Static data                                                             *)
(***************************************************************************)

\* Variant: the fifth entry is a copy of the sixth with only part of its
\* fields edited; its title is still that of the sixth.
LearningPathsDataCopied ==
  << [ title |-> "HTML Fundamentals",
       description |-> "Master semantic markup and accessibility",
       icon |-> "FileText",
       topics |-> <<"Semantic Elements", "Forms & Validation", "Accessibility", "SEO Basics">>,
       difficulty |-> "Beginner",
       color |-> "bg-orange-500" ],
     [ title |-> "CSS Mastery",
       description |-> "Modern styling with layouts and animations",
       icon |-> "Code",
       topics |-> <<"Flexbox & Grid", "Responsive Design", "Animations", "Custom Properties">>,
       difficulty |-> "Intermediate",
       color |-> "bg-blue-500" ],
     [ title |-> "JavaScript Essentials",
       description |-> "Core language features and modern patterns",
       icon |-> "Zap",
       topics |-> <<"ES6+ Features", "Async/Await", "DOM Manipulation", "Error Handling">>,
       difficulty |-> "Intermediate",
       color |-> "bg-yellow-500" ],
     [ title |-> "TypeScript Guide",
       description |-> "Type-safe JavaScript development",
       icon |-> "Target",
       topics |-> <<"Types & Interfaces", "Generics", "React Integration", "Advanced Patterns">>,
       difficulty |-> "Advanced",
       color |-> "bg-indigo-500" ],
     [ title |-> "Next.js Framework",
       description |-> "Component-based UI development",
       icon |-> "Users",
       topics |-> <<"Components & Hooks", "State Management", "Performance", "Testing">>,
       difficulty |-> "Intermediate",
       color |-> "bg-cyan-500" ],
     [ title |-> "Next.js Framework",
       description |-> "Full-stack React applications",
       icon |-> "BookOpen",
       topics |-> <<"App Router", "Server Components", "API Routes", "Optimization">>,
       difficulty |-> "Advanced",
       color |-> "bg-purple-500" ] >>

\* Variant: one entry carries a label outside the three known ones.
LearningPathsDataTypo ==
  << [ title |-> "HTML Fundamentals",
       description |-> "Master semantic markup and accessibility",
       icon |-> "FileText",
       topics |-> <<"Semantic Elements", "Forms & Validation", "Accessibility", "SEO Basics">>,
       difficulty |-> "Beginner",
       color |-> "bg-orange-500" ],
     [ title |-> "CSS Mastery",
       description |-> "Modern styling with layouts and animations",
       icon |-> "Code",
       topics |-> <<"Flexbox & Grid", "Responsive Design", "Animations", "Custom Properties">>,
       difficulty |-> "Intermediate",
       color |-> "bg-blue-500" ],
     [ title |-> "JavaScript Essentials",
       description |-> "Core language features and modern patterns",
       icon |-> "Zap",
       topics |-> <<"ES6+ Features", "Async/Await", "DOM Manipulation", "Error Handling">>,
       difficulty |-> "Intermediate",
       color |-> "bg-yellow-500" ],
     [ title |-> "TypeScript Guide",
       description |-> "Type-safe JavaScript development",
       icon |-> "Target",
       topics |-> <<"Types & Interfaces", "Generics", "React Integration", "Advanced Patterns">>,
       difficulty |-> "Expert",
       color |-> "bg-indigo-500" ],
     [ title |-> "React Development",
       description |-> "Component-based UI development",
       icon |-> "Users",
       topics |-> <<"Components & Hooks", "State Management", "Performance", "Testing">>,
       difficulty |-> "Intermediate",
       color |-> "bg-cyan-500" ],
     [ title |-> "Next.js Framework",
       description |-> "Full-stack React applications",
       icon |-> "BookOpen",
       topics |-> <<"App Router", "Server Components", "API Routes", "Optimization">>,
       difficulty |-> "advanced",
       color |-> "bg-purple-500" ] >>

\* Index.tsx:9-58
LearningPathsData ==
  << [ title |-> "HTML Fundamentals",
       description |-> "Master semantic markup and accessibility",
       icon |-> "FileText",
       topics |-> <<"Semantic Elements", "Forms & Validation", "Accessibility", "SEO Basics">>,
       difficulty |-> "Beginner",
       color |-> "bg-orange-500" ],
     [ title |-> "CSS Mastery",
       description |-> "Modern styling with layouts and animations",
       icon |-> "Code",
       topics |-> <<"Flexbox & Grid", "Responsive Design", "Animations", "Custom Properties">>,
       difficulty |-> "Intermediate",
       color |-> "bg-blue-500" ],
     [ title |-> "JavaScript Essentials",
       description |-> "Core language features and modern patterns",
       icon |-> "Zap",
       topics |-> <<"ES6+ Features", "Async/Await", "DOM Manipulation", "Error Handling">>,
       difficulty |-> "Intermediate",
       color |-> "bg-yellow-500" ],
     [ title |-> "TypeScript Guide",
       description |-> "Type-safe JavaScript development",
       icon |-> "Target",
       topics |-> <<"Types & Interfaces", "Generics", "React Integration", "Advanced Patterns">>,
       difficulty |-> "Advanced",
       color |-> "bg-indigo-500" ],
     [ title |-> "React Development",
       description |-> "Component-based UI development",
       icon |-> "Users",
       topics |-> <<"Components & Hooks", "State Management", "Performance", "Testing">>,
       difficulty |-> "Intermediate",
       color |-> "bg-cyan-500" ],
     [ title |-> "Next.js Framework",
       description |-> "Full-stack React applications",
       icon |-> "BookOpen",
       topics |-> <<"App Router", "Server Components", "API Routes", "Optimization">>,
       difficulty |-> "Advanced",
       color |-> "bg-purple-500" ] >>

\* Index.tsx:60-81
FeaturesData ==
  << [ icon |-> "BookOpen",
       title |-> "Comprehensive Guides",
       description |-> "In-depth documentation covering all essential frontend technologies" ],
     [ icon |-> "Code",
       title |-> "Practical Examples",
       description |-> "Real-world code examples with detailed explanations" ],
     [ icon |-> "Target",
       title |-> "Best Practices",
       description |-> "Industry-standard patterns and proven methodologies" ],
     [ icon |-> "Trophy",
       title |-> "Common Pitfalls",
       description |-> "Learn from mistakes and avoid common development traps" ] >>

\* docs/README.md:25-33, the guides of the numbered learning path, in order
ReadmeLearningPath ==
  << "HTML Fundamentals", "CSS Mastery", "JavaScript Essentials",
     "TypeScript Guide", "React Development", "Next.js Framework",
     "TailwindCSS", "Frontend Testing", "Best Practices" >>

\* Variant: one name of the literal is a copy of its neighbour.
TechNamesDup ==
  <<"HTML", "CSS", "JavaScript", "TypeScript", "React", "React", "TailwindCSS", "Testing">>

\* Index.tsx:221, the literal array of the documentation preview
TechNames ==
  <<"HTML", "CSS", "JavaScript", "TypeScript", "React", "Next.js", "TailwindCSS", "Testing">>

\* Arguments getDifficultyColor is applied to outside a render: the three
\* labels, wrong-case variants, the empty string and unrelated strings.
DifficultyInputs ==
  { "Beginner", "Intermediate", "Advanced",
    "beginner", "INTERMEDIATE", "advanced", "", "Unknown", "Expert" }

(***************************************************************************)
(* Pure helpers                                                            *)
(***************************************************************************)

\* Variant: the tokens of two cases are exchanged.
getDifficultyColorSwapped(difficulty) ==
  CASE difficulty = "Beginner"     -> "bg-green-100 text-green-800"
    [] difficulty = "Intermediate" -> "bg-red-100 text-red-800"
    [] difficulty = "Advanced"     -> "bg-yellow-100 text-yellow-800"
    [] OTHER                       -> "bg-gray-100 text-gray-800"

\* Variant: the switch has no default branch, so the function falls off its
\* end and returns undefined for every other string.
getDifficultyColorNoDefault(difficulty) ==
  CASE difficulty = "Beginner"     -> "bg-green-100 text-green-800"
    [] difficulty = "Intermediate" -> "bg-yellow-100 text-yellow-800"
    [] difficulty = "Advanced"     -> "bg-red-100 text-red-800"
    [] OTHER                       -> Undefined

\* Variant: the case labels are written in lower case, so the capitalised
\* labels of the data fall through to the default branch.
getDifficultyColorLowerCase(difficulty) ==
  CASE difficulty = "beginner"     -> "bg-green-100 text-green-800"
    [] difficulty = "intermediate" -> "bg-yellow-100 text-yellow-800"
    [] difficulty = "advanced"     -> "bg-red-100 text-red-800"
    [] OTHER                       -> "bg-gray-100 text-gray-800"

\* Variant: the 'Advanced' case returns a copy of the 'Intermediate' token.
getDifficultyColorMerged(difficulty) ==
  CASE difficulty = "Beginner"     -> "bg-green-100 text-green-800"
    [] difficulty = "Intermediate" -> "bg-yellow-100 text-yellow-800"
    [] difficulty = "Advanced"     -> "bg-yellow-100 text-yellow-800"
    [] OTHER                       -> "bg-gray-100 text-gray-800"

\* Index.tsx:83-90
getDifficultyColor(difficulty) ==
  CASE difficulty = "Beginner"     -> "bg-green-100 text-green-800"
    [] difficulty = "Intermediate" -> "bg-yellow-100 text-yellow-800"
    [] difficulty = "Advanced"     -> "bg-red-100 text-red-800"
    [] OTHER                       -> "bg-gray-100 text-gray-800"

\* Variant: the elements are visited from the last to the first.
MapElementReversed(arr, i) == arr[Len(arr) + 1 - i]

\* Array.prototype.map visits the elements in index order: the callback's
\* i-th call receives arr[i] (1-based here).
MapElement(arr, i) == arr[i]

\* Variant: the last element is not visited.
MapLengthOffByOne(arr) == Len(arr) - 1

\* Number of callback calls of arr.map
MapLength(arr) == Len(arr)

\* <Button ...>label</Button>: the props the JSX passes (no href, no onClick)
Button(label, variant) ==
  [ label |-> label, variant |-> variant, href |-> Undefined ]

\* Index.tsx:139-151, the Card of one feature
FeatureCard(feature) ==
  [ icon |-> feature.icon,
    title |-> feature.title,
    description |-> feature.description ]

\* Variant: the badge's class is computed from the wrong field.
PathCardHeaderWrongField(path) ==
  [ stripe |-> path.color,
    icon |-> path.icon,
    badgeClass |-> getDifficultyColor(path.title),
    badgeText |-> path.difficulty,
    title |-> path.title,
    description |-> path.description,
    topicBadges |-> << >>,
    buttons |-> << >> ]

\* Index.tsx:171-188, the Card of one learning path up to its CardHeader
PathCardHeader(path) ==
  [ stripe |-> path.color,
    icon |-> path.icon,
    badgeClass |-> getDifficultyColor(path.difficulty),
    badgeText |-> path.difficulty,
    title |-> path.title,
    description |-> path.description,
    topicBadges |-> << >>,
    buttons |-> << >> ]

\* Variant: only the first three topics are shown.
TopicsOfSliced(path) ==
  SubSeq(path.topics, 1, IF Len(path.topics) < 3 THEN Len(path.topics) ELSE 3)

\* Index.tsx:192, the array path.topics.map runs over
TopicsOf(path) == path.topics

EmptyOut ==
  [ featureCards |-> << >>, pathCards |-> << >>, techTiles |-> << >>, buttons |-> << >> ]

(***************************************************************************)
(* State                                                                   *)
(***************************************************************************)
VARIABLES
  learningPaths,  \* the array of Index.tsx:9
  features,       \* the array of Index.tsx:60
  pc,             \* position of the render
  fIdx,           \* index of features.map
  pIdx,           \* index of learningPaths.map
  tIdx,           \* topicIndex of path.topics.map
  kIdx,           \* index of the preview names' map
  out,            \* the tree built by the render in progress
  lastOutput,     \* the tree the previous call of Index returned
  renders,        \* number of calls of Index so far
  arg,            \* argument of a direct application of getDifficultyColor
  called,         \* whether that application has happened
  result          \* what it returned

vars ==
  << learningPaths, features, pc, fIdx, pIdx, tIdx, kIdx, out, lastOutput,
     renders, arg, called, result >>

renderVars ==
  << learningPaths, features, pc, fIdx, pIdx, tIdx, kIdx, out, lastOutput, renders >>

callVars == << arg, called, result >>

Init ==
  /\ learningPaths = LearningPathsData
  /\ features = FeaturesData
  /\ pc = "idle"
  /\ fIdx = 1
  /\ pIdx = 1
  /\ tIdx = 1
  /\ kIdx = 1
  /\ out = EmptyOut
  /\ lastOutput = EmptyOut
  /\ renders = 0
  /\ arg \in DifficultyInputs
  /\ called = FALSE
  /\ result = ""

(***************************************************************************)
(* Actions                                                                 *)
(***************************************************************************)

\* A direct application of the helper to the drawn argument.
ApplyGetDifficultyColor ==
  /\ ~called
  /\ called' = TRUE
  /\ result' = getDifficultyColor(arg)
  /\ UNCHANGED << arg, renderVars >>

\* Variant: the arrays live outside the component and learningPaths is
\* reversed in place before it is mapped.
IndexCallReversing ==
  /\ pc \in {"idle", "done"}
  /\ renders < MaxRenders
  /\ renders' = renders + 1
  /\ learningPaths' =
       [i \in 1..Len(learningPaths) |-> learningPaths[Len(learningPaths) + 1 - i]]
  /\ features' = features
  /\ lastOutput' = out
  /\ out' = EmptyOut
  /\ fIdx' = 1
  /\ pIdx' = 1
  /\ tIdx' = 1
  /\ kIdx' = 1
  /\ pc' = "hero"
  /\ UNCHANGED callVars

\* The framework calls Index: the body evaluates the two array literals and
\* the helper, then starts building the returned tree.
IndexCall ==
  /\ pc \in {"idle", "done"}
  /\ renders < MaxRenders
  /\ renders' = renders + 1
  /\ learningPaths' = LearningPathsData
  /\ features' = FeaturesData
  /\ lastOutput' = out
  /\ out' = EmptyOut
  /\ fIdx' = 1
  /\ pIdx' = 1
  /\ tIdx' = 1
  /\ kIdx' = 1
  /\ pc' = "hero"
  /\ UNCHANGED callVars

\* Index.tsx:95-123, the hero section with its two buttons
RenderHero ==
  /\ pc = "hero"
  /\ out' = [out EXCEPT !.buttons =
               @ \o << Button("Start Learning", "default"),
                       Button("View Documentation", "outline") >>]
  /\ pc' = "features"
  /\ UNCHANGED << learningPaths, features, fIdx, pIdx, tIdx, kIdx, lastOutput,
                  renders, callVars >>

\* Index.tsx:138-152, one call of the features.map callback
RenderFeatureCard ==
  /\ pc = "features"
  /\ fIdx <= MapLength(features)
  /\ out' = [out EXCEPT !.featureCards =
               Append(@, FeatureCard(MapElement(features, fIdx)))]
  /\ fIdx' = fIdx + 1
  /\ UNCHANGED << learningPaths, features, pc, pIdx, tIdx, kIdx, lastOutput,
                  renders, callVars >>

\* features.map has returned; Index.tsx:157-169 opens the next section
EndFeatures ==
  /\ pc = "features"
  /\ fIdx > MapLength(features)
  /\ pc' = "paths"
  /\ UNCHANGED << learningPaths, features, fIdx, pIdx, tIdx, kIdx, out,
                  lastOutput, renders, callVars >>

\* Index.tsx:170-188, one call of the learningPaths.map callback: the card
\* with its stripe, icon, difficulty badge, title and description
RenderPathCard ==
  /\ pc = "paths"
  /\ pIdx <= MapLength(learningPaths)
  /\ out' = [out EXCEPT !.pathCards =
               Append(@, PathCardHeader(MapElement(learningPaths, pIdx)))]
  /\ tIdx' = 1
  /\ pc' = "topics"
  /\ UNCHANGED << learningPaths, features, fIdx, pIdx, kIdx, lastOutput,
                  renders, callVars >>

\* Index.tsx:192-196, one call of the path.topics.map callback
RenderTopicBadge ==
  /\ pc = "topics"
  /\ tIdx <= MapLength(TopicsOf(MapElement(learningPaths, pIdx)))
  /\ out' = [out EXCEPT !.pathCards[pIdx].topicBadges =
               Append(@, MapElement(TopicsOf(MapElement(learningPaths, pIdx)), tIdx))]
  /\ tIdx' = tIdx + 1
  /\ UNCHANGED << learningPaths, features, pc, fIdx, pIdx, kIdx, lastOutput,
                  renders, callVars >>

\* Variant: the callback empties the path's topics array once it has
\* rendered the badges.
RenderPathButtonClearing ==
  /\ pc = "topics"
  /\ tIdx > MapLength(TopicsOf(MapElement(learningPaths, pIdx)))
  /\ out' = [out EXCEPT !.pathCards[pIdx].buttons =
               Append(@, Button("Start Learning", "default"))]
  /\ learningPaths' = [learningPaths EXCEPT ![pIdx].topics = << >>]
  /\ pIdx' = pIdx + 1
  /\ pc' = "paths"
  /\ UNCHANGED << features, fIdx, tIdx, kIdx, lastOutput, renders, callVars >>

\* Index.tsx:198-201, the card's button; the callback returns
RenderPathButton ==
  /\ pc = "topics"
  /\ tIdx > MapLength(TopicsOf(MapElement(learningPaths, pIdx)))
  /\ out' = [out EXCEPT !.pathCards[pIdx].buttons =
               Append(@, Button("Start Learning", "default"))]
  /\ pIdx' = pIdx + 1
  /\ pc' = "paths"
  /\ UNCHANGED << learningPaths, features, fIdx, tIdx, kIdx, lastOutput,
                  renders, callVars >>

\* learningPaths.map has returned; Index.tsx:210-220 opens the preview
EndPaths ==
  /\ pc = "paths"
  /\ pIdx > MapLength(learningPaths)
  /\ pc' = "preview"
  /\ UNCHANGED << learningPaths, features, fIdx, pIdx, tIdx, kIdx, out,
                  lastOutput, renders, callVars >>

\* Index.tsx:221-225, one call of the preview names' map callback
RenderTechTile ==
  /\ pc = "preview"
  /\ kIdx <= MapLength(TechNames)
  /\ out' = [out EXCEPT !.techTiles = Append(@, MapElement(TechNames, kIdx))]
  /\ kIdx' = kIdx + 1
  /\ UNCHANGED << learningPaths, features, pc, fIdx, pIdx, tIdx, lastOutput,
                  renders, callVars >>

\* Index.tsx:227-230, the button below the tiles
RenderViewAllButton ==
  /\ pc = "preview"
  /\ kIdx > MapLength(TechNames)
  /\ out' = [out EXCEPT !.buttons =
               Append(@, Button("View All Documentation", "secondary"))]
  /\ pc' = "cta"
  /\ UNCHANGED << learningPaths, features, fIdx, pIdx, tIdx, kIdx, lastOutput,
                  renders, callVars >>

\* Variant: the closing section is rendered only after something outside the
\* render has happened (here: the direct application of the helper).
RenderCTAWaiting ==
  /\ pc = "cta"
  /\ called
  /\ out' = [out EXCEPT !.buttons =
               @ \o << Button("Get Started Now", "default"),
                       Button("Browse Documentation", "outline") >>]
  /\ pc' = "done"
  /\ UNCHANGED << learningPaths, features, fIdx, pIdx, tIdx, kIdx, lastOutput,
                  renders, callVars >>

\* Index.tsx:236-262, the closing section with its two buttons; Index returns
RenderCTA ==
  /\ pc = "cta"
  /\ out' = [out EXCEPT !.buttons =
               @ \o << Button("Get Started Now", "default"),
                       Button("Browse Documentation", "outline") >>]
  /\ pc' = "done"
  /\ UNCHANGED << learningPaths, features, fIdx, pIdx, tIdx, kIdx, lastOutput,
                  renders, callVars >>

Next ==
  \/ ApplyGetDifficultyColor
  \/ IndexCall
  \/ RenderHero
  \/ RenderFeatureCard
  \/ EndFeatures
  \/ RenderPathCard
  \/ RenderTopicBadge
  \/ RenderPathButton
  \/ EndPaths
  \/ RenderTechTile
  \/ RenderViewAllButton
  \/ RenderCTA

Spec == Init /\ [][Next]_vars

\* The steps of the body of Index once it has been called: straight-line
\* synchronous code, which runs on to its return.
RenderStep ==
  \/ RenderHero
  \/ RenderFeatureCard
  \/ EndFeatures
  \/ RenderPathCard
  \/ RenderTopicBadge
  \/ RenderPathButton
  \/ EndPaths
  \/ RenderTechTile
  \/ RenderViewAllButton
  \/ RenderCTA

\* A call of Index that has started keeps executing; nothing obliges the
\* framework to call Index, nor anyone to apply the helper directly.
FairSpec == Init /\ [][Next]_vars /\ WF_vars(RenderStep)

(***************************************************************************)
(* Properties                                                              *)
(***************************************************************************)

KnownLabels == {"Beginner", "Intermediate", "Advanced"}

DefaultToken == "bg-gray-100 text-gray-800"

StyleTokens ==
  { "bg-green-100 text-green-800", "bg-yellow-100 text-yellow-800",
    "bg-red-100 text-red-800", DefaultToken }

\* C1: getDifficultyColor returns the green token for 'Beginner', the yellow
\* token for 'Intermediate', the red token for 'Advanced' and the default gray
\* token for any other string.
C1_DifficultyMapping ==
  called =>
    /\ (arg = "Beginner" => result = "bg-green-100 text-green-800")
    /\ (arg = "Intermediate" => result = "bg-yellow-100 text-yellow-800")
    /\ (arg = "Advanced" => result = "bg-red-100 text-red-800")
    /\ (arg \notin KnownLabels => result = "bg-gray-100 text-gray-800")

C1_Witness ==
  called /\ arg = "Advanced" /\ result = "bg-red-100 text-red-800"

\* C2: getDifficultyColor is total: whatever string it is applied to (the
\* empty string and wrong-case labels included) it returns one of the four
\* style tokens, never undefined, and an unrecognized string gets the default
\* token; the same holds of every badge class a render computes.
C2_Total ==
  /\ called =>
       /\ result \in StyleTokens
       /\ result # Undefined
       /\ (arg \in {"", "beginner", "INTERMEDIATE", "advanced"} => result = DefaultToken)
  /\ \A i \in 1..Len(out.pathCards) : out.pathCards[i].badgeClass \in StyleTokens

C2_Witness ==
  called /\ arg = "beginner" /\ result = DefaultToken

\* C3: once a render is done, there are as many feature cards as features
\* and as many learning-path cards as learningPaths.
C3_CardCounts ==
  pc = "done" =>
    /\ Len(out.featureCards) = Len(features)
    /\ Len(out.pathCards) = Len(learningPaths)

C3_Witness ==
  pc = "done" /\ Len(out.featureCards) = 4 /\ Len(out.pathCards) = 6

\* C4: cards are rendered in sequence order: at every point of a render the
\* i-th feature card shows features[i] and the i-th learning-path card shows
\* learningPaths[i]; the cards rendered so far are exactly those the map
\* indices have passed, a finished render has passed all of them, and the
\* render is never anywhere but at one of its positions.
C4_SequenceOrder ==
  /\ pc \in {"idle", "hero", "features", "paths", "topics", "preview", "cta", "done"}
  /\ Len(out.featureCards) <= Len(features)
  /\ Len(out.pathCards) <= Len(learningPaths)
  /\ \A i \in 1..Len(out.featureCards) :
       /\ out.featureCards[i].title = features[i].title
       /\ out.featureCards[i].description = features[i].description
  /\ \A i \in 1..Len(out.pathCards) :
       /\ out.pathCards[i].title = learningPaths[i].title
       /\ out.pathCards[i].description = learningPaths[i].description
  /\ pc = "done" =>
       /\ Len(out.featureCards) = Len(features)
       /\ Len(out.pathCards) = Len(learningPaths)

C4_Witness ==
  /\ pc = "done"
  /\ out.featureCards[4].title = "Common Pitfalls"
  /\ out.pathCards[2].title = "CSS Mastery"
  /\ out.pathCards[6].title = "Next.js Framework"

\* C5: a render that follows another returns the same tree as the one
\* before it.
C5_Idempotent ==
  (pc = "done" /\ renders >= 2) => out = lastOutput

C5_Witness ==
  pc = "done" /\ renders >= 2 /\ out = lastOutput /\ Len(out.pathCards) = 6

\* C6: no step of the program changes learningPaths or features.
C6_Immutable ==
  [][learningPaths' = learningPaths /\ features' = features]_vars

C6_Witness ==
  /\ pc = "done"
  /\ renders >= 2
  /\ learningPaths = LearningPathsData
  /\ features = FeaturesData

\* C7: the difficulty of every entry of learningPaths is one of Beginner,
\* Intermediate, Advanced.
C7_KnownDifficulty ==
  \A i \in 1..Len(learningPaths) : learningPaths[i].difficulty \in KnownLabels

C7_Witness ==
  /\ renders >= 1
  /\ Len(learningPaths) = 6
  /\ \A l \in KnownLabels :
       \E i \in 1..Len(learningPaths) : learningPaths[i].difficulty = l

\* The buttons of a tree: those of the sections and those of the cards.
AllButtons(tree) ==
  { tree.buttons[i] : i \in 1..Len(tree.buttons) }
    \cup UNION { { tree.pathCards[i].buttons[j] : j \in 1..Len(tree.pathCards[i].buttons) }
                 : i \in 1..Len(tree.pathCards) }

\* C8: every button of a rendered page (the learning-path cards' buttons and
\* the documentation buttons) carries a link target.
C8_LinkTargets ==
  pc = "done" => \A b \in AllButtons(out) : b.href # Undefined

\* C9: the difficulty badge of the i-th learning-path card shows
\* learningPaths[i].difficulty with the class
\* getDifficultyColor(learningPaths[i].difficulty).
C9_BadgeOfCard ==
  \A i \in 1..Len(out.pathCards) :
    /\ i <= Len(learningPaths)
    /\ out.pathCards[i].badgeText = learningPaths[i].difficulty
    /\ out.pathCards[i].badgeClass = getDifficultyColor(learningPaths[i].difficulty)

C9_Witness ==
  /\ Len(out.pathCards) >= 4
  /\ out.pathCards[1].badgeText = "Beginner"
  /\ out.pathCards[1].badgeClass = "bg-green-100 text-green-800"
  /\ out.pathCards[4].badgeText = "Advanced"
  /\ out.pathCards[4].badgeClass = "bg-red-100 text-red-800"

\* C10: a finished learning-path card i has one topic badge per element of
\* learningPaths[i].topics, in that order; a card still being rendered has
\* the first badges of that sequence.
C10_TopicBadges ==
  \A i \in 1..Len(out.pathCards) :
    LET badges == out.pathCards[i].topicBadges
        topics == learningPaths[i].topics
    IN /\ Len(badges) <= Len(topics)
       /\ \A j \in 1..Len(badges) : badges[j] = topics[j]
       /\ (Len(out.pathCards[i].buttons) > 0 => Len(badges) = Len(topics))

C10_Witness ==
  /\ pc = "done"
  /\ out.pathCards[3].topicBadges =
       <<"ES6+ Features", "Async/Await", "DOM Manipulation", "Error Handling">>
  /\ Len(out.pathCards[6].topicBadges) = 4

\* C11: no difficulty badge of a render of the shipped learningPaths has the
\* default gray class: the default branch of getDifficultyColor is not taken.
C11_NoDefaultBadge ==
  \A i \in 1..Len(out.pathCards) :
    out.pathCards[i].badgeClass # "bg-gray-100 text-gray-800"

C11_Witness ==
  /\ pc = "done"
  /\ Len(out.pathCards) = 6
  /\ { out.pathCards[i].badgeClass : i \in 1..6 } =
       { "bg-green-100 text-green-800", "bg-yellow-100 text-yellow-800",
         "bg-red-100 text-red-800" }

\* C12: getDifficultyColor is injective on the three known labels and keeps
\* them apart from the fallback: two rendered cards have the same badge class
\* exactly when they have the same difficulty, and the token of a direct
\* application equals a card's badge class exactly when the argument is that
\* card's difficulty (so never when the argument is not a known label).
C12_Injective ==
  /\ \A i, j \in 1..Len(out.pathCards) :
       (out.pathCards[i].badgeClass = out.pathCards[j].badgeClass)
         <=> (learningPaths[i].difficulty = learningPaths[j].difficulty)
  /\ called =>
       \A i \in 1..Len(out.pathCards) :
         (out.pathCards[i].badgeClass = result)
           <=> (learningPaths[i].difficulty = arg)

C12_Witness ==
  /\ called
  /\ arg = "Unknown"
  /\ pc = "done"
  /\ out.pathCards[2].badgeClass = out.pathCards[3].badgeClass
  /\ out.pathCards[2].badgeClass # out.pathCards[4].badgeClass
  /\ out.pathCards[1].badgeClass # out.pathCards[2].badgeClass
  /\ out.pathCards[1].badgeClass # out.pathCards[4].badgeClass
  /\ \A i \in 1..6 : out.pathCards[i].badgeClass # result

\* C13: the documentation preview shows the eight tiles HTML, CSS,
\* JavaScript, TypeScript, React, Next.js, TailwindCSS, Testing in that order:
\* the tiles rendered so far are the first names of that list, all eight are
\* there once the section is left, and no two tiles (keys) are equal.
C13_PreviewTiles ==
  LET expected == << "HTML", "CSS", "JavaScript", "TypeScript", "React",
                     "Next.js", "TailwindCSS", "Testing" >>
  IN /\ Len(out.techTiles) <= 8
     /\ \A k \in 1..Len(out.techTiles) : out.techTiles[k] = expected[k]
     /\ \A k, l \in 1..Len(out.techTiles) :
          k # l => out.techTiles[k] # out.techTiles[l]
     /\ pc \in {"cta", "done"} => Len(out.techTiles) = 8

C13_Witness ==
  /\ pc = "done"
  /\ Len(out.techTiles) = 8
  /\ out.techTiles[1] = "HTML"
  /\ out.techTiles[6] = "Next.js"
  /\ out.techTiles[8] = "Testing"

\* C14: the titles of learningPaths, in array order, are the first six guides
\* of the README's numbered learning path and are pairwise distinct; the
\* rendered cards show those titles.
C14_TitlesNameGuides ==
  /\ Len(learningPaths) = 6
  /\ \A i \in 1..Len(learningPaths) : learningPaths[i].title = ReadmeLearningPath[i]
  /\ \A i, j \in 1..Len(learningPaths) :
       i # j => learningPaths[i].title # learningPaths[j].title
  /\ \A i \in 1..Len(out.pathCards) : out.pathCards[i].title = ReadmeLearningPath[i]

C14_Witness ==
  /\ pc = "done"
  /\ Len(out.pathCards) = 6
  /\ out.pathCards[1].title = "HTML Fundamentals"
  /\ out.pathCards[5].title = "React Development"
  /\ learningPaths[6].title = "Next.js Framework"

\* C15: a render that has started reaches its end, and at its end every
\* element of features, learningPaths, each path's topics and the eight
\* preview names has been visited exactly once: each map index stands one past
\* its array and each array has produced as many elements as it has.
C15_RenderTerminates ==
  /\ (pc \notin {"idle", "done"}) ~> (pc = "done")
  /\ [](pc = "done" =>
          /\ fIdx = Len(features) + 1
          /\ Len(out.featureCards) = Len(features)
          /\ pIdx = Len(learningPaths) + 1
          /\ Len(out.pathCards) = Len(learningPaths)
          /\ \A i \in 1..Len(out.pathCards) :
               /\ Len(out.pathCards[i].topicBadges) = Len(learningPaths[i].topics)
               /\ Len(out.pathCards[i].buttons) = 1
          /\ kIdx = 8 + 1
          /\ Len(out.techTiles) = 8)

C15_Witness ==
  /\ pc = "done"
  /\ renders = 1
  /\ fIdx = 5
  /\ pIdx = 7
  /\ kIdx = 9
  /\ Len(out.buttons) = 5

====
